---- MODULE Spec2Model ----
(***************************************************************************)
(* Model of huffmania/main.c: frequency accumulation, greedy Huffman tree  *)
(* construction, derivation of the packed encoding table, and bit-exact    *)
(* stream encode / decode, run in the order main() runs them.              *)
(*                                                                         *)
(* Scaling.  TOKEN_SIZE (256 in the source) and the Stream buffer size     *)
(* (8192 bytes in the source) are scaled down; every size derived from     *)
(* them keeps the source's formula.  size_t arithmetic never comes near    *)
(* wrapping for the inputs enumerated here, so counts are plain naturals;  *)
(* (size_t)-1 is modelled by the largest integer of the model.             *)
(*                                                                         *)
(* Input bytes are token values 0 .. TOKEN_SIZE-1, i.e. the bytes for      *)
(* which the `char` index of freq_tree_accumulate is not negative.         *)
(*                                                                         *)
(* Memory that the program never initialises (the locals `tree`, `enc`     *)
(* and `encodedStream` of main) holds one of the fill bytes of UninitFill, *)
(* chosen in Init.                                                         *)
(***************************************************************************)
EXTENDS Integers, Sequences, FiniteSets

\* ------------------------------------------------------------------ sizes

TOKEN_SIZE == 6

INVALID_TOKEN == 2147483647

MAX_ENCODING_TABLE_BITS == (TOKEN_SIZE + 1) * TOKEN_SIZE - 1

MAX_ENCODING_TABLE_BYTES == (MAX_ENCODING_TABLE_BITS + 7) \div 8

FREQ_TREE_MAX_NODES == TOKEN_SIZE * 2 - 1

STREAM_BUFFER_BYTES == 4

MaxLen == 3

\* longest block passed to one freq_tree_accumulate call
MaxAccumulate == 10

Tokens == 0 .. (TOKEN_SIZE - 1)

Nodes == 0 .. (FREQ_TREE_MAX_NODES - 1)

UninitFill == {0, 165, 255}

Min(a, b) == IF a < b THEN a ELSE b

\* ------------------------------------------------------------------ inputs

Rep(t, n) == [i \in 1 .. n |-> t]

\* a:5 b:9 c:12 d:13 e:16 f:45 with a..f the tokens 0..5
Textbook ==
    Rep(0, 5) \o Rep(1, 9) \o Rep(2, 12) \o Rep(3, 13) \o Rep(4, 16) \o Rep(5, 45)

\* counts {2, 2, 3} over the tokens 0, 1, 2, the count 3 at each place in turn
TieBreakSamples ==
    { Rep(p[1], 2) \o Rep(p[3], 3) \o Rep(p[2], 2) :
        p \in { <<0, 1, 2>>, <<0, 2, 1>>, <<1, 2, 0>> } }

\* counts {1, 1, 2}: the first internal node ties with a leaf
TieInternalSamples == { <<2, 0, 1, 2>>, <<0, 1, 0, 2>> }

Inputs ==
    UNION { [1 .. k -> Tokens] : k \in 0 .. MaxLen }
        \cup {Textbook} \cup TieBreakSamples \cup TieInternalSamples

\* ------------------------------------------------------------------ state

VARIABLES
    pc,              \* position in main()
    ub,              \* "none", or the undefined behaviour the run ended in
    uninit,          \* fill byte of the memory main() never initialises
    input,           \* the data block (g_testData)
    acc_pos,         \* bytes of input already passed to freq_tree_accumulate
    tree,            \* FreqTree tree
    new_index,       \* generate_huffman: new_index
    ind1,            \* generate_huffman: ind1
    val1,            \* generate_huffman: val1
    ind2,            \* generate_huffman: ind2
    val2,            \* generate_huffman: val2
    enc,             \* EncodedTable enc
    total_bitcount,  \* create_encodings: total_bitcount
    encodedStream,   \* Stream encodedStream
    out              \* tokens printed by stream_decode

vars ==
    << pc, ub, uninit, input, acc_pos, tree, new_index, ind1, val1, ind2, val2,
       enc, total_bitcount, encodedStream, out >>

genVars == << new_index, ind1, val1, ind2, val2 >>

\* ------------------------------------------------------------------ bits

\* ((byte) >> shift) & 1
BitOf(byte, shift) == (byte \div (2 ^ shift)) % 2

\* byte |= value << shift, for value in {0, 1}
OrBit(byte, value, shift) ==
    IF value = 1 /\ BitOf(byte, shift) = 0 THEN byte + (2 ^ shift) ELSE byte

set_encoded_bit(pTable, bit_offset, value) ==
    [pTable EXCEPT !.m_packedData[bit_offset \div 8] =
        OrBit(@, value, 7 - (bit_offset % 8))]

read_encoded_bit(pTable, bit_offset) ==
    BitOf(pTable.m_packedData[bit_offset \div 8], 7 - (bit_offset % 8))

\* ------------------------------------------------------------------ FreqTree

freq_tree_init(pFreqTree) ==
    [ m_count |-> [i \in Nodes |-> 0],
      m_left  |-> [i \in Nodes |-> INVALID_TOKEN],
      m_right |-> [i \in Nodes |-> INVALID_TOKEN],
      m_top   |-> FREQ_TREE_MAX_NODES ]

RECURSIVE freq_tree_accumulate(_, _)
freq_tree_accumulate(pFreqTree, pData) ==
    IF pData = << >> THEN pFreqTree
    ELSE freq_tree_accumulate(
            [pFreqTree EXCEPT !.m_count[Head(pData)] = @ + 1], Tail(pData))

\* the scan loop of get_smallest_huffman from index i on
RECURSIVE ScanSmallest(_, _, _, _, _)
ScanSmallest(pFreqTree, scan_size, i, small_val, small_ind) ==
    IF i >= scan_size THEN small_ind
    ELSE LET val == pFreqTree.m_count[i]
         IN  IF val # 0 /\ val < small_val
             THEN ScanSmallest(pFreqTree, scan_size, i + 1, val, i)
             ELSE ScanSmallest(pFreqTree, scan_size, i + 1, small_val, small_ind)

\* get_smallest_huffman with `val <= small_val`: the last minimum found wins
RECURSIVE ScanSmallestLastWins(_, _, _, _, _)
ScanSmallestLastWins(pFreqTree, scan_size, i, small_val, small_ind) ==
    IF i >= scan_size THEN small_ind
    ELSE LET val == pFreqTree.m_count[i]
         IN  IF val # 0 /\ val <= small_val
             THEN ScanSmallestLastWins(pFreqTree, scan_size, i + 1, val, i)
             ELSE ScanSmallestLastWins(pFreqTree, scan_size, i + 1, small_val, small_ind)

get_smallest_huffman_LastWins(pFreqTree, scan_size) ==
    ScanSmallestLastWins(pFreqTree, scan_size, 0, INVALID_TOKEN, INVALID_TOKEN)

get_smallest_huffman(pFreqTree, scan_size) ==
    ScanSmallest(pFreqTree, scan_size, 0, INVALID_TOKEN, INVALID_TOKEN)

\* ------------------------------------------------------------------ Init

Init ==
    /\ pc = "start"
    /\ ub = "none"
    /\ uninit \in UninitFill
    /\ input \in Inputs
    /\ acc_pos = 0
    /\ tree = [ m_count |-> [i \in Nodes |-> uninit],
                m_left  |-> [i \in Nodes |-> uninit],
                m_right |-> [i \in Nodes |-> uninit],
                m_top   |-> uninit ]
    /\ new_index = uninit
    /\ ind1 = uninit
    /\ val1 = uninit
    /\ ind2 = uninit
    /\ val2 = uninit
    /\ enc = [ m_packedData    |-> [b \in 0 .. (MAX_ENCODING_TABLE_BYTES - 1) |-> uninit],
               m_offset        |-> [t \in Tokens |-> uninit],
               m_bitcount      |-> [t \in Tokens |-> uninit],
               m_currentOffset |-> uninit ]
    /\ total_bitcount = uninit
    /\ encodedStream = [ m_buffer |-> [b \in 0 .. (STREAM_BUFFER_BYTES - 1) |-> uninit],
                         m_offset |-> uninit ]
    /\ out = << >>

\* ------------------------------------------------------------------ main: tree

\* main: freq_tree_init(&tree)
FreqTreeInit ==
    /\ pc = "start"
    /\ tree' = freq_tree_init(tree)
    /\ pc' = "accumulate"
    /\ UNCHANGED << ub, uninit, input, acc_pos, genVars, enc, total_bitcount,
                    encodedStream, out >>

\* freq_tree_accumulate(&tree, pData, len) on the next len bytes of the data
\* ("can be called multiple times to accumulate over time")
FreqTreeAccumulate ==
    /\ pc = "accumulate"
    /\ \E len \in 1 .. Min(MaxAccumulate, Len(input) - acc_pos) :
          /\ tree' = freq_tree_accumulate(tree, SubSeq(input, acc_pos + 1, acc_pos + len))
          /\ acc_pos' = acc_pos + len
    /\ UNCHANGED << pc, ub, uninit, input, genVars, enc, total_bitcount,
                    encodedStream, out >>

\* generate_huffman: size_t new_index = TOKEN_SIZE
GenerateEnter ==
    /\ pc = "accumulate"
    /\ acc_pos = Len(input)
    /\ new_index' = TOKEN_SIZE
    /\ pc' = "gen_scan1"
    /\ UNCHANGED << ub, uninit, input, acc_pos, tree, ind1, val1, ind2, val2,
                    enc, total_bitcount, encodedStream, out >>

\* ind1 = get_smallest_huffman(...); if (ind1 == INVALID_TOKEN) break;
GenerateScan1 ==
    /\ pc = "gen_scan1"
    /\ ind1' = get_smallest_huffman(tree, new_index)
    /\ pc' = IF ind1' = INVALID_TOKEN THEN "gen_exit" ELSE "gen_take1"
    /\ UNCHANGED << ub, uninit, input, acc_pos, tree, new_index, val1, ind2, val2,
                    enc, total_bitcount, encodedStream, out >>

\* val1 = m_count[ind1]; m_count[ind1] = 0
GenerateTake1 ==
    /\ pc = "gen_take1"
    /\ val1' = tree.m_count[ind1]
    /\ tree' = [tree EXCEPT !.m_count[ind1] = 0]
    /\ pc' = "gen_scan2"
    /\ UNCHANGED << ub, uninit, input, acc_pos, new_index, ind1, ind2, val2,
                    enc, total_bitcount, encodedStream, out >>

\* ind2 = get_smallest_huffman(...); if (ind2 == INVALID_TOKEN) break;
GenerateScan2 ==
    /\ pc = "gen_scan2"
    /\ ind2' = get_smallest_huffman(tree, new_index)
    /\ pc' = IF ind2' = INVALID_TOKEN THEN "gen_exit" ELSE "gen_take2"
    /\ UNCHANGED << ub, uninit, input, acc_pos, tree, new_index, ind1, val1, val2,
                    enc, total_bitcount, encodedStream, out >>

\* GenerateTake2 without hiding the second node from the table
GenerateTake2_NotHidden ==
    /\ pc = "gen_take2"
    /\ val2' = tree.m_count[ind2]
    /\ pc' = "gen_merge"
    /\ UNCHANGED << ub, uninit, input, acc_pos, tree, new_index, ind1, val1, ind2,
                    enc, total_bitcount, encodedStream, out >>

\* val2 = m_count[ind2]; m_count[ind2] = 0
GenerateTake2 ==
    /\ pc = "gen_take2"
    /\ val2' = tree.m_count[ind2]
    /\ tree' = [tree EXCEPT !.m_count[ind2] = 0]
    /\ pc' = "gen_merge"
    /\ UNCHANGED << ub, uninit, input, acc_pos, new_index, ind1, val1, ind2,
                    enc, total_bitcount, encodedStream, out >>

\* MergedNode with the new count taken from the first node only
MergedNode_FirstCountOnly(pFreqTree, index, i1, v1, i2, v2) ==
    [pFreqTree EXCEPT !.m_count[index] = v1,
                      !.m_left[index]  = i1,
                      !.m_right[index] = i2]

\* MergedNode with the right link left unset
MergedNode_LeftOnly(pFreqTree, index, i1, v1, i2, v2) ==
    [pFreqTree EXCEPT !.m_count[index] = v1 + v2,
                      !.m_left[index]  = i1]

\* the new combined entry node written at new_index
MergedNode(pFreqTree, index, i1, v1, i2, v2) ==
    [pFreqTree EXCEPT !.m_count[index] = v1 + v2,
                      !.m_left[index]  = i1,
                      !.m_right[index] = i2]

\* "Make a new combined entry node"; ++new_index.  The three stores and the
\* increment are one step: nothing reads the tree between them.
GenerateMerge ==
    /\ pc = "gen_merge"
    /\ tree' = MergedNode(tree, new_index, ind1, val1, ind2, val2)
    /\ new_index' = new_index + 1
    /\ pc' = "gen_scan1"
    /\ UNCHANGED << ub, uninit, input, acc_pos, ind1, val1, ind2, val2,
                    enc, total_bitcount, encodedStream, out >>

\* pFreqTree->m_top = --new_index
GenerateExit ==
    /\ pc = "gen_exit"
    /\ new_index' = new_index - 1
    /\ tree' = [tree EXCEPT !.m_top = new_index - 1]
    /\ pc' = "built"
    /\ UNCHANGED << ub, uninit, input, acc_pos, ind1, val1, ind2, val2,
                    enc, total_bitcount, encodedStream, out >>

\* ------------------------------------------------------------------ EncodedTable

encoded_table_init(pTable) ==
    [pTable EXCEPT !.m_offset        = [t \in Tokens |-> 0],
                   !.m_bitcount      = [t \in Tokens |-> 0],
                   !.m_currentOffset = 0]

\* while (pChain) { --write_offset; set_encoded_bit(...); pChain = pChain->m_pParent; }
\* pChain is the BitChain list as a sequence: its head is the innermost link,
\* its tail the m_pParent chain.
RECURSIVE WriteChain(_, _, _)
WriteChain(pEnc, pChain, write_offset) ==
    IF pChain = << >> THEN pEnc
    ELSE WriteChain(set_encoded_bit(pEnc, write_offset - 1, Head(pChain)),
                    Tail(pChain), write_offset - 1)

\* the leaf branch of freq_tree_traverse
TraverseLeaf(pEnc, top, pChain, bitcount, onlyCount) ==
    IF onlyCount = 1
    THEN [pEnc EXCEPT !.m_bitcount[top] = bitcount]
    ELSE WriteChain(
            [pEnc EXCEPT !.m_offset[top]     = pEnc.m_currentOffset,
                         !.m_currentOffset   = pEnc.m_currentOffset + bitcount],
            pChain, pEnc.m_currentOffset + bitcount)

\* TraverseTotal with `=` for `+=`
TraverseTotal_RightOnly(leftsize, rightsize) == rightsize

\* totalsize = traverse(left) ; totalsize += traverse(right)
TraverseTotal(leftsize, rightsize) == leftsize + rightsize

\* returns [enc |-> the table after the call, size |-> the returned bit count]
RECURSIVE freq_tree_traverse(_, _, _, _, _, _)
freq_tree_traverse(pEnc, pFreqTree, top, pChain, bitcount, onlyCount) ==
    IF pFreqTree.m_left[top] = INVALID_TOKEN
    THEN [ enc  |-> TraverseLeaf(pEnc, top, pChain, bitcount, onlyCount),
           size |-> bitcount ]
    ELSE LET l == freq_tree_traverse(pEnc, pFreqTree, pFreqTree.m_left[top],
                                     << 0 >> \o pChain, bitcount + 1, onlyCount)
             r == freq_tree_traverse(l.enc, pFreqTree, pFreqTree.m_right[top],
                                     << 1 >> \o pChain, bitcount + 1, onlyCount)
         IN  [ enc |-> r.enc, size |-> TraverseTotal(l.size, r.size) ]

\* create_encodings: the table after both traversals, and total_bitcount
create_encodings(pEnc, pFreqTree) ==
    LET first  == freq_tree_traverse(encoded_table_init(pEnc), pFreqTree,
                                     pFreqTree.m_top, << >>, 0, 0)
        second == freq_tree_traverse(first.enc, pFreqTree,
                                     pFreqTree.m_top, << >>, 0, 1)
    IN  [ enc |-> second.enc, total_bitcount |-> first.size ]

\* main: create_encodings(&enc, &tree)
CreateEncodings ==
    /\ pc = "built"
    /\ LET r == create_encodings(enc, tree)
       IN  /\ enc' = r.enc
           /\ total_bitcount' = r.total_bitcount
    /\ pc' = "encodings"
    /\ UNCHANGED << ub, uninit, input, acc_pos, tree, genVars, encodedStream, out >>

\* ------------------------------------------------------------------ Stream

stream_reset(pStream) == [pStream EXCEPT !.m_offset = 0]

StreamBits == STREAM_BUFFER_BYTES * 8

stream_write_bit(pStream, value) ==
    [pStream EXCEPT !.m_buffer[pStream.m_offset \div 8] =
                        OrBit(@, value, 7 - (pStream.m_offset % 8)),
                    !.m_offset = @ + 1]

\* the bit stream_read_bit returns; the cursor advances by one
stream_read_bit(pStream) ==
    BitOf(pStream.m_buffer[pStream.m_offset \div 8], 7 - (pStream.m_offset % 8))

\* stream_encode from byte i of pData, bit startBit of that byte's code, on.
\* Returns [stream, overflow]: overflow when a bit is written past m_buffer.
RECURSIVE EncodeFrom(_, _, _, _, _)
EncodeFrom(pStream, pData, i, startBit, pEnc) ==
    IF i > Len(pData) THEN [stream |-> pStream, overflow |-> FALSE]
    ELSE LET org    == pData[i]
             endBit == pEnc.m_offset[org] + pEnc.m_bitcount[org]
         IN  IF startBit = endBit
             THEN IF i = Len(pData)
                  THEN [stream |-> pStream, overflow |-> FALSE]
                  ELSE EncodeFrom(pStream, pData, i + 1, pEnc.m_offset[pData[i + 1]], pEnc)
             ELSE IF pStream.m_offset >= StreamBits
                  THEN [stream |-> pStream, overflow |-> TRUE]
                  ELSE EncodeFrom(
                          stream_write_bit(pStream, read_encoded_bit(pEnc, startBit)),
                          pData, i, startBit + 1, pEnc)

stream_encode(pStream, pData, pEnc) ==
    IF pData = << >> THEN [stream |-> pStream, overflow |-> FALSE]
    ELSE EncodeFrom(pStream, pData, 1, pEnc.m_offset[pData[1]], pEnc)

\* the do-while of stream_decode from node current on.
\* Returns [stream, current, fault].
RECURSIVE DecodeWalk(_, _, _)
DecodeWalk(pStream, pFreqTree, current) ==
    IF pStream.m_offset >= StreamBits
    THEN [stream |-> pStream, current |-> current, fault |-> "stream_read_overrun"]
    ELSE LET bit  == stream_read_bit(pStream)
             s    == [pStream EXCEPT !.m_offset = @ + 1]
             next == IF bit = 1 THEN pFreqTree.m_right[current]
                                ELSE pFreqTree.m_left[current]
         IN  IF next \notin Nodes
             THEN [stream |-> s, current |-> next, fault |-> "tree_index_out_of_range"]
             ELSE IF pFreqTree.m_left[next] # INVALID_TOKEN
                  THEN DecodeWalk(s, pFreqTree, next)
                  ELSE [stream |-> s, current |-> next, fault |-> "none"]

\* main: stream_reset(&encodedStream), before encoding and before decoding
StreamReset ==
    /\ pc \in {"encodings", "encoded"}
    /\ encodedStream' = stream_reset(encodedStream)
    /\ pc' = IF pc = "encodings" THEN "stream_ready" ELSE "decoding"
    /\ UNCHANGED << ub, uninit, input, acc_pos, tree, genVars, enc, total_bitcount, out >>

\* main: stream_encode(&encodedStream, g_testData, sizeof(g_testData), &enc)
StreamEncode ==
    /\ pc = "stream_ready"
    /\ LET r == stream_encode(encodedStream, input, enc)
       IN  /\ encodedStream' = r.stream
           /\ pc' = IF r.overflow THEN "ub" ELSE "encoded"
           /\ ub' = IF r.overflow THEN "stream_write_overflow" ELSE ub
    /\ UNCHANGED << uninit, input, acc_pos, tree, genVars, enc, total_bitcount, out >>

\* one turn of the while (1) of stream_decode: walk to a leaf, print it,
\* break when it is token 0
StreamDecode ==
    /\ pc = "decoding"
    /\ LET r == DecodeWalk(encodedStream, tree, tree.m_top)
       IN  /\ encodedStream' = r.stream
           /\ IF r.fault # "none"
              THEN /\ pc' = "ub"
                   /\ ub' = r.fault
                   /\ out' = out
              ELSE /\ out' = Append(out, r.current)
                   /\ pc' = IF r.current = 0 THEN "done" ELSE "decoding"
                   /\ ub' = ub
    /\ UNCHANGED << uninit, input, acc_pos, tree, genVars, enc, total_bitcount >>

Next ==
    \/ FreqTreeInit
    \/ FreqTreeAccumulate
    \/ GenerateEnter
    \/ GenerateScan1
    \/ GenerateTake1
    \/ GenerateScan2
    \/ GenerateTake2
    \/ GenerateMerge
    \/ GenerateExit
    \/ CreateEncodings
    \/ StreamReset
    \/ StreamEncode
    \/ StreamDecode

Spec == Init /\ [][Next]_vars

\* the steps of the while (1) of generate_huffman: once entered, the loop runs
Generate ==
    \/ GenerateScan1
    \/ GenerateTake1
    \/ GenerateScan2
    \/ GenerateTake2
    \/ GenerateMerge
    \/ GenerateExit

FairSpec == Spec /\ WF_vars(Generate)

\* ------------------------------------------------------------------ vocabulary of the properties

\* occurrences of token t in the data block
Freq(t) == Cardinality({ i \in 1 .. Len(input) : input[i] = t })

Used == { t \in Tokens : Freq(t) > 0 }

GenPcs == {"gen_scan1", "gen_take1", "gen_scan2", "gen_take2", "gen_merge", "gen_exit"}

AfterEncodings == pc \in {"encodings", "stream_ready", "encoded", "decoding", "done", "ub"}

AfterBuild == pc = "built" \/ AfterEncodings

\* stream_decode has been entered on a stream stream_encode wrote completely
Decoded == pc \in {"decoding", "done"} \/ (pc = "ub" /\ ub # "stream_write_overflow")

IsPrefix(s, t) == Len(s) <= Len(t) /\ SubSeq(t, 1, Len(s)) = s

RECURSIVE SumOver(_, _)
SumOver(f, S) ==
    IF S = {} THEN 0
    ELSE LET x == CHOOSE y \in S : TRUE IN f[x] + SumOver(f, S \ {x})

\* the code of token t as the packed table holds it
Code(t) ==
    [k \in 1 .. enc.m_bitcount[t] |-> read_encoded_bit(enc, enc.m_offset[t] + k - 1)]

RECURSIVE Leaves(_)
Leaves(n) ==
    IF tree.m_left[n] = INVALID_TOKEN THEN {n}
    ELSE Leaves(tree.m_left[n]) \cup Leaves(tree.m_right[n])

\* the descents from node n to leaf t: 0 for left, 1 for right
RECURSIVE PathFrom(_, _)
PathFrom(n, t) ==
    IF n = t THEN << >>
    ELSE IF t \in Leaves(tree.m_left[n])
         THEN << 0 >> \o PathFrom(tree.m_left[n], t)
         ELSE << 1 >> \o PathFrom(tree.m_right[n], t)

\* the data up to and including its first 0 byte
UpToFirstZero ==
    LET z == CHOOSE i \in 1 .. Len(input) :
                 input[i] = 0 /\ \A j \in 1 .. (i - 1) : input[j] # 0
    IN  SubSeq(input, 1, z)

HasZero == \E i \in 1 .. Len(input) : input[i] = 0

\* ------------------------------------------------------------------ C1

\* C1: for a data block with at least 2 distinct byte values, decoding the
\* encoded stream prints exactly the data block: every printed sequence is a
\* prefix of it, the run ends in no fault, and it stops when, and only when,
\* the whole block has been printed.  Taken here on the runs whose
\* never-initialised memory is all zero.
C1_RoundTrip ==
    (Cardinality(Used) >= 2 /\ Decoded /\ uninit = 0) =>
        /\ IsPrefix(out, input)
        /\ pc # "ub"
        /\ (pc = "done") <=> (out = input)

\* ------------------------------------------------------------------ C2

IsBitPrefix(a, b) == IsPrefix(a, b)

\* C2: with at least 2 used tokens, no used token's code, as read from the
\* packed table, is a bit-prefix of another used token's code, and every
\* used token's code is at least 1 bit long.
C2_PrefixFree ==
    (AfterEncodings /\ Cardinality(Used) >= 2) =>
        /\ \A s \in Used : \A t \in Used \ {s} : ~ IsBitPrefix(Code(s), Code(t))
        /\ \A t \in Used : enc.m_bitcount[t] >= 1

\* ------------------------------------------------------------------ C3

\* i is the lowest index below scan_size holding the minimum nonzero count
LowestMinimum(i, scan_size) ==
    /\ i \in 0 .. (scan_size - 1)
    /\ tree.m_count[i] # 0
    /\ \A j \in 0 .. (scan_size - 1) :
          tree.m_count[j] # 0 =>
              /\ tree.m_count[i] <= tree.m_count[j]
              /\ (tree.m_count[j] = tree.m_count[i] => i <= j)

\* tokens A < B occur twice, token C three times, no other token occurs
TieBreakScenario(A, B, C) ==
    /\ A < B /\ C # A /\ C # B
    /\ Freq(A) = 2 /\ Freq(B) = 2 /\ Freq(C) = 3
    /\ \A t \in Tokens \ {A, B, C} : Freq(t) = 0

\* C3: every pick of generate_huffman, first or second, is the lowest index
\* in [0, new_index) among the nodes holding the minimum nonzero count; and
\* with counts {A:2, B:2, C:3}, A < B, the first node created has left = A
\* and right = B.
C3_TieBreak ==
    /\ pc = "gen_take1" => LowestMinimum(ind1, new_index)
    /\ pc = "gen_take2" => LowestMinimum(ind2, new_index)
    /\ \A A \in Tokens : \A B \in Tokens : \A C \in Tokens :
          ( /\ TieBreakScenario(A, B, C)
            /\ (AfterBuild \/ (pc \in GenPcs /\ new_index > TOKEN_SIZE)) )
          => /\ tree.m_left[TOKEN_SIZE] = A
             /\ tree.m_right[TOKEN_SIZE] = B

\* the first pick of the {2, 2, 3} scenario, made among two equal counts
C3_Witness ==
    /\ pc = "gen_take1"
    /\ new_index = TOKEN_SIZE
    /\ \E A \in Tokens : \E B \in Tokens : \E C \in Tokens :
          TieBreakScenario(A, B, C) /\ ind1 = A /\ tree.m_count[B] = tree.m_count[A]

\* ------------------------------------------------------------------ C4

\* the counts of the textbook example, a..f being the tokens 0..5
Freq_Textbook(t) ==
    CASE t = 0 -> 5 [] t = 1 -> 9 [] t = 2 -> 12 [] t = 3 -> 13
      [] t = 4 -> 16 [] t = 5 -> 45 [] OTHER -> 0

TextbookFreq == \A t \in Tokens : Freq(t) = Freq_Textbook(t)

\* C4: with the counts a:5 b:9 c:12 d:13 e:16 f:45 and every other token at
\* 0, the code lengths are f:1 c:3 d:3 e:3 a:4 b:4 and the sum of code
\* length times count is 224.
C4_Textbook ==
    (AfterEncodings /\ TextbookFreq) =>
        /\ enc.m_bitcount[0] = 4 /\ enc.m_bitcount[1] = 4
        /\ enc.m_bitcount[2] = 3 /\ enc.m_bitcount[3] = 3
        /\ enc.m_bitcount[4] = 3 /\ enc.m_bitcount[5] = 1
        /\ SumOver([t \in Tokens |-> enc.m_bitcount[t] * Freq(t)], Tokens) = 224

C4_Witness == AfterEncodings /\ TextbookFreq /\ enc.m_bitcount[5] = 1

\* ------------------------------------------------------------------ C5

\* C5 as stated: the total returned by the traversal made for
\* total_bitcount is the sum over the tokens of code length times count.
C5_WeightedTotal ==
    AfterEncodings =>
        total_bitcount = SumOver([t \in Tokens |-> enc.m_bitcount[t] * Freq(t)], Tokens)

\* C5 amended: the total returned by the traversal made for total_bitcount
\* is the sum over the tokens of the code lengths, each counted once.
C5_TotalOfCodeLengths ==
    AfterEncodings =>
        total_bitcount = SumOver([t \in Tokens |-> enc.m_bitcount[t]], Tokens)

C5_Witness ==
    AfterEncodings /\ Cardinality(Used) >= 3 /\ total_bitcount >= 5

\* ------------------------------------------------------------------ C6

\* C6: with at least one used token, m_top is the root: with 2 or more used
\* tokens the last internal node created, every used token a leaf under
\* it; with exactly one used token, that token's leaf.
C6_RootSelection ==
    (AfterBuild /\ Cardinality(Used) >= 1) =>
        IF Cardinality(Used) >= 2
        THEN /\ tree.m_top \in Nodes
             /\ tree.m_left[tree.m_top] # INVALID_TOKEN
             /\ \A i \in Nodes : tree.m_left[i] # INVALID_TOKEN => i <= tree.m_top
             /\ Used \subseteq Leaves(tree.m_top)
        ELSE tree.m_top \in Used

\* ------------------------------------------------------------------ C7

\* C7: for a data block with at least 2 distinct byte values and a 0 byte,
\* stream_decode prints the data up to and including the first 0 byte and
\* stops there, and nowhere else.
C7_DecodeTermination ==
    (Cardinality(Used) >= 2 /\ HasZero /\ Decoded) =>
        /\ IsPrefix(out, UpToFirstZero)
        /\ pc # "ub"
        /\ (pc = "done") <=> (out = UpToFirstZero)

\* ------------------------------------------------------------------ C8

\* C8: from freq_tree_init on, for every node i, m_left[i] is INVALID iff
\* m_right[i] is; every index below TOKEN_SIZE is a leaf; every internal
\* node has two distinct valid children of lower index.
C8_LeafInternal ==
    pc # "start" =>
        \A i \in Nodes :
            /\ (tree.m_left[i] = INVALID_TOKEN) <=> (tree.m_right[i] = INVALID_TOKEN)
            /\ i < TOKEN_SIZE => tree.m_left[i] = INVALID_TOKEN
            /\ tree.m_left[i] # INVALID_TOKEN =>
                  /\ tree.m_left[i] \in 0 .. (i - 1)
                  /\ tree.m_right[i] \in 0 .. (i - 1)
                  /\ tree.m_left[i] # tree.m_right[i]

\* a second internal node, one of its children internal, during the build
C8_Witness ==
    /\ pc \in GenPcs
    /\ \E i \in Nodes :
          /\ tree.m_left[i] # INVALID_TOKEN
          /\ (tree.m_left[i] >= TOKEN_SIZE \/ tree.m_right[i] >= TOKEN_SIZE)

\* ------------------------------------------------------------------ C9

\* C9: with at least 2 used tokens, for every leaf under m_top the bits read
\* from the packed table at m_offset .. m_offset + m_bitcount - 1 are the
\* root-to-leaf descents of that leaf, and the ranges of distinct leaves do
\* not overlap.
C9_CodeBitOrder ==
    (AfterEncodings /\ Cardinality(Used) >= 2) =>
        /\ \A t \in Leaves(tree.m_top) : Code(t) = PathFrom(tree.m_top, t)
        /\ \A s \in Leaves(tree.m_top) : \A t \in Leaves(tree.m_top) \ {s} :
              \/ enc.m_offset[s] + enc.m_bitcount[s] <= enc.m_offset[t]
              \/ enc.m_offset[t] + enc.m_bitcount[t] <= enc.m_offset[s]

\* ------------------------------------------------------------------ C10

\* the indices generate_huffman is about to write, and its node count
C10_WithinCapacity ==
    /\ pc \in GenPcs => new_index - TOKEN_SIZE <= TOKEN_SIZE - 1
    /\ pc = "gen_take1" => ind1 < FREQ_TREE_MAX_NODES
    /\ pc = "gen_take2" => ind2 < FREQ_TREE_MAX_NODES
    /\ pc = "gen_merge" => new_index < FREQ_TREE_MAX_NODES
    /\ AfterBuild => /\ tree.m_top - TOKEN_SIZE + 1 <= TOKEN_SIZE - 1
                     /\ \A i \in Nodes : tree.m_count[i] = 0

\* C10: generate_huffman terminates, having created at most TOKEN_SIZE-1
\* internal nodes; every index it writes is below FREQ_TREE_MAX_NODES; and
\* when it stops every m_count entry is 0.
C10_BuildTerminates ==
    /\ [] C10_WithinCapacity
    /\ (pc = "gen_scan1") ~> (pc = "built")

\* the build ended with all TOKEN_SIZE-1 internal nodes in use
C10_Witness ==
    pc = "built" /\ tree.m_top = FREQ_TREE_MAX_NODES - 1

====
